---- MODULE Spec2Model ----
(***************************************************************************)
(* EchoNote: the diary entry service (src-tauri/src/entry_service.rs), its *)
(* in-memory STORE, the file store (src-tauri/src/storage.rs) and the      *)
(* background metadata refresh.  Every critical section of the STORE mutex *)
(* is one action; the disk accesses the code makes outside the mutex are   *)
(* actions of their own, so the interleavings of the code are the          *)
(* interleavings of the model.                                             *)
(*                                                                         *)
(* Text is a sequence of characters (one-character strings); Option<T> is  *)
(* the empty set (None) or a singleton (Some).                             *)
(***************************************************************************)
EXTENDS Integers, Sequences, FiniteSets, TLC

VARIABLES
    STORE,            \* entry_service.rs:22  HashMap<String, EntryRecord> behind the mutex
    disk,             \* the entry files, by the date in the file name
    LOGICAL_COUNTER,  \* entry_service.rs:484 AtomicU64
    saves,            \* the save_entry_by_date calls, by call
    tasks,            \* the metadata refresh task each call spawned
    reader,           \* a get_entry_body_by_date / load_entry_summary call
    lister,           \* a list_entries_by_month call
    calls,            \* the number of calls made so far
    events,           \* the payloads emitted as ENTRY_METADATA_EVENT, in order
    arg,              \* the input of a call of a function studied on its own
    result,           \* what that call returned
    issued,           \* the ids next_hlc has returned, in the order of the calls
    app_dir,          \* the files of the app data directory other than the entries
    DEVICE_ID,        \* device.rs:22  OnceCell<String>
    threads,          \* the threads calling device::device_id
    migration,        \* the runs of ai_migration::migrate_if_needed
    vault_saved       \* by provider, the key last saved and the identity it was saved under

\* the variables of the entry service
coreVars == <<STORE, disk, LOGICAL_COUNTER, saves, tasks, reader, lister, calls, events>>

\* the variables the entry service never touches
\* the variables of the secret vault, the device identity and the migration
secVars == <<app_dir, DEVICE_ID, threads, migration, vault_saved>>

auxVars == <<arg, result, issued, secVars>>

vars == <<coreVars, auxVars>>

-----------------------------------------------------------------------------
(* Bounds of the model *)

\* number of save_entry_by_date calls in one run
MaxSaves == 2

\* number of calls (saves, reads, listings) in one run
MaxCalls == 3

\* the calls of next_hlc that are followed
MaxIssued == 11

\* the threads that call device_id
MaxThreads == 3

\* the runs of migrate_if_needed (one at every start of the app)
MaxRuns == 2

\* the cache ceiling; 500 in the code, scaled down so that eviction happens
MAX_STORE_ENTRIES == 1

\* summarize_body's character limit
LIMIT == 120

\* a retry loop that allows one attempt more
one_more_attempt == 3 + 1

\* regenerate_entry_metadata's attempt bound
max_attempts == 3

SaveIds == 1..MaxSaves

-----------------------------------------------------------------------------
(* Option *)

None == {}
Some(x) == {x}
unwrap(opt) == CHOOSE x \in opt : TRUE
unwrap_or(opt, default) == IF opt = None THEN default ELSE unwrap(opt)

-----------------------------------------------------------------------------
(* Dates: all of one month.                                                *)

Dates == {"2025-01-01", "2025-01-02"}

DayNumber == ("2025-01-01" :> 1) @@ ("2025-01-02" :> 2)

\* Ok(NaiveDate) as Some(day), Err as None
parse_date(date) == IF date \in Dates THEN Some(DayNumber[date]) ELSE None

-----------------------------------------------------------------------------
(* Text helpers *)

WHITESPACE == {" ", "\n", "\r", "\t"}

RECURSIVE trim_start(_)
trim_start(s) ==
    IF s # <<>> /\ Head(s) \in WHITESPACE THEN trim_start(Tail(s)) ELSE s

RECURSIVE trim_end(_)
trim_end(s) ==
    IF s # <<>> /\ s[Len(s)] \in WHITESPACE
    THEN trim_end(SubSeq(s, 1, Len(s) - 1))
    ELSE s

trim(s) == trim_end(trim_start(s))

EMPTY_ENTRY_SUMMARY == <<"EMPTY_ENTRY_SUMMARY">>
AI_PENDING_SUMMARY == <<"AI_PENDING_SUMMARY">>

\* blake3 is taken to be collision free: the digest names the exact text
fingerprint(body) == <<"blake3">> \o body

\* the loop of summarize_body stopping one character late (count > LIMIT)
summarize_one_late(body) ==
    LET trimmed == trim(body)
        n == IF Len(trimmed) > LIMIT + 1 THEN LIMIT + 1 ELSE Len(trimmed)
        head == [i \in 1..n |->
                    IF trimmed[i] \in {"\n", "\r"} THEN " " ELSE trimmed[i]]
    IN  IF trimmed = <<>> THEN None
        ELSE IF Len(trimmed) > LIMIT + 1 THEN Some(head \o <<".", ".", ".">>)
        ELSE Some(head)

summarize_body(body) ==
    LET trimmed == trim(body)
        n == IF Len(trimmed) > LIMIT THEN LIMIT ELSE Len(trimmed)
        head == [i \in 1..n |->
                    IF trimmed[i] \in {"\n", "\r"} THEN " " ELSE trimmed[i]]
    IN  IF trimmed = <<>> THEN None
        ELSE IF Len(trimmed) > LIMIT THEN Some(head \o <<".", ".", ".">>)
        ELSE Some(head)

detect_language(body) ==
    LET trimmed == trim(body)
        total == Len(trimmed)
        ascii_letters ==
            Cardinality({i \in 1..total : trimmed[i] \in {"a", "b", "c", "s"}})
    IN  IF trimmed = <<>> THEN None
        ELSE IF ascii_letters * 10 > 6 * total THEN Some("en")
        ELSE Some("zh")

-----------------------------------------------------------------------------
(* Ids.  An id is <<timestamp, logical counter>> (the device id is the same *)
(* for every id of one installation); the code compares ids as strings.     *)

RECURSIVE Decimal(_)
Decimal(n) == IF n < 10 THEN <<48 + n>> ELSE Decimal(n \div 10) \o <<48 + (n % 10)>>

\* format!("{timestamp}-{logical}-{device_id}") as character codes
hlc_string(hlc) == Decimal(hlc[1]) \o <<45>> \o Decimal(hlc[2]) \o <<45, 100>>

RECURSIVE str_less(_, _)
str_less(a, b) ==
    IF b = <<>> THEN FALSE
    ELSE IF a = <<>> THEN TRUE
    ELSE IF Head(a) # Head(b) THEN Head(a) < Head(b)
    ELSE str_less(Tail(a), Tail(b))

-----------------------------------------------------------------------------
(* models.rs *)

DiaryEntry(hlc, hash, date, emoji, ai_summary, language) ==
    [hlc |-> hlc, hash |-> hash, date |-> date, emoji |-> emoji,
     ai_summary |-> ai_summary, language |-> language]

EntryRecord(summary, body) == [summary |-> summary, body |-> body]

-----------------------------------------------------------------------------
(* storage.rs.  A file is its parsed header and the text after the closing *)
(* "\n---" marker.                                                         *)

RECURSIVE strip_leading_newlines(_)
strip_leading_newlines(s) ==
    IF s # <<>> /\ Head(s) \in {"\r", "\n"}
    THEN strip_leading_newlines(Tail(s))
    ELSE s

document(summary, body) == [summary |-> summary, rest |-> <<"\n", "\n">> \o body]

\* Ok(files) as Some(files); Err (the header date does not parse) as None
write_entry(files, summary, body) ==
    IF parse_date(summary.date) = None THEN None
    ELSE Some([d \in DOMAIN files \cup {summary.date} |->
                  IF d = summary.date THEN document(summary, body) ELSE files[d]])

EmptyMap == [k \in {} |-> {}]

extract_frontmatter(doc) == <<doc.summary, strip_leading_newlines(doc.rest)>>

parse_document(doc) ==
    LET parts == extract_frontmatter(doc) IN EntryRecord(parts[1], parts[2])

load_entry(files, date) ==
    IF date \in DOMAIN files THEN Some(parse_document(files[date])) ELSE None

FRONTMATTER_INITIAL_BYTES == 1024
FRONTMATTER_ADDITIONAL_BYTES == 2048

\* content.contains("\n---") on the first `window` bytes of the file. The
\* file is "---\n", the block of serde_yaml::to_string(summary), "---\n\n" and
\* the body: the closing "\n---" begins at the last byte of the block and
\* ends 3 bytes later. The block holds the text of ai_summary, one byte or
\* more a character, and is counted as that text alone (the other fields
\* are short and of bounded length)
contains_closing_marker(doc, window) ==
    4 + Len(unwrap_or(doc.summary.ai_summary, <<>>)) + 3 <= window

\* Ok(record) as Some(record); Err (no closing marker in the bytes read) as None
read_frontmatter_record(doc) ==
    LET window ==
            IF contains_closing_marker(doc, FRONTMATTER_INITIAL_BYTES)
            THEN FRONTMATTER_INITIAL_BYTES
            ELSE FRONTMATTER_INITIAL_BYTES + FRONTMATTER_ADDITIONAL_BYTES
    IN  IF ~contains_closing_marker(doc, window) THEN None
        ELSE Some(EntryRecord(extract_frontmatter(doc)[1], <<>>))

\* the files whose header could not be read are skipped (l.100-102)
load_month_entries(files) ==
    {unwrap(r) : r \in {read_frontmatter_record(files[d]) : d \in DOMAIN files} \ {None}}

-----------------------------------------------------------------------------
(* entry_service.rs: the pure parts *)

\* an insert that is forgotten
insert_nothing(store, key, record) == store

insert(store, key, record) ==
    [k \in DOMAIN store \cup {key} |-> IF k = key THEN record ELSE store[k]]

\* the sort turned round: the latest dates go first
prune_latest_first(store) ==
    LET len == Cardinality(DOMAIN store)
        entries == {k \in DOMAIN store : parse_date(k) # None}
        overflow == len - MAX_STORE_ENTRIES
        taken == {k \in entries :
                    Cardinality({j \in entries :
                        unwrap(parse_date(j)) > unwrap(parse_date(k))}) < overflow}
    IN  IF len <= MAX_STORE_ENTRIES \/ entries = {} THEN store
        ELSE [k \in DOMAIN store \ taken |-> store[k]]

prune_store_capacity(store) ==
    LET len == Cardinality(DOMAIN store)
        entries == {k \in DOMAIN store : parse_date(k) # None}
        before(a, b) ==
            \/ unwrap(parse_date(a)) < unwrap(parse_date(b))
            \/ /\ unwrap(parse_date(a)) = unwrap(parse_date(b))
               /\ str_less(hlc_string(store[a].summary.hlc),
                           hlc_string(store[b].summary.hlc))
        overflow == len - MAX_STORE_ENTRIES
        taken == {k \in entries :
                    Cardinality({j \in entries : before(j, k)}) < overflow}
    IN  IF len <= MAX_STORE_ENTRIES THEN store
        ELSE IF entries = {} THEN store
        ELSE [k \in DOMAIN store \ taken |-> store[k]]

\* the provider ids a caller may send; None is a payload without provider id
ProviderIds ==
    {None, Some(<<" ">>), Some(<<"noai">>), Some(<<"noai", " ">>),
     Some(<<" ", "openai", " ">>)}
AiInputs == {None} \cup {Some([provider_id |-> p]) : p \in ProviderIds}

\* the check of the sentinel left out
sanitize_without_sentinel(ai) ==
    IF ai.provider_id = None THEN None
    ELSE LET provider == trim(unwrap(ai.provider_id))
         IN  IF provider = <<>> THEN None
             ELSE Some([provider_id |-> Some(provider)])

sanitize_ai_payload(ai) ==
    IF ai.provider_id = None THEN None
    ELSE LET provider == trim(unwrap(ai.provider_id))
         IN  IF provider = <<>> \/ provider = <<"noai">> THEN None
             ELSE Some([provider_id |-> Some(provider)])

and_then_sanitize(ai) == IF ai = None THEN None ELSE sanitize_ai_payload(unwrap(ai))

\* entry_service.rs:157-161
ai_summary_text(ai_payload, body) ==
    IF ai_payload # None THEN AI_PENDING_SUMMARY
    ELSE unwrap_or(summarize_body(body), EMPTY_ENTRY_SUMMARY)

build_summary(existing, date, body, ai_summary, fresh_hlc) ==
    DiaryEntry(
        IF existing = None THEN fresh_hlc ELSE unwrap(existing).hlc,
        fingerprint(body),
        date,
        IF existing = None THEN None ELSE unwrap(existing).emoji,
        Some(ai_summary),
        detect_language(body))

-----------------------------------------------------------------------------
(* security/crypto.rs.  HKDF-SHA256 and AES-256-GCM are taken to be ideal: *)
(* a derived key names the key material and the salt it was derived from,  *)
(* and a sealed text opens under the key and the nonce it was sealed with  *)
(* and under no other.                                                     *)

\* Result<T, String>: Ok(x), or Err whatever the message
Ok(x) == <<"Ok", x>>
Err == <<"Err">>
is_ok(r) == r[1] = "Ok"
ok_value(r) == r[2]

\* crypto.rs:45-66
derive_key(device_id, salt) == [ikm |-> device_id, salt |-> salt]

\* Aes256Gcm encrypt and decrypt under a key and a nonce; decrypt is Err as None
aead_encrypt(key, nonce, plaintext) == [key |-> key, nonce |-> nonce, plaintext |-> plaintext]
aead_decrypt(key, nonce, ciphertext) ==
    IF ciphertext.key = key /\ ciphertext.nonce = nonce
    THEN Some(ciphertext.plaintext)
    ELSE None

EncryptedBlob(salt, nonce, ciphertext) ==
    [salt |-> salt, nonce |-> nonce, ciphertext |-> ciphertext]

\* crypto.rs:15-30, with the salt and the nonce OsRng gave
encrypt(device_id, plaintext, salt, nonce) ==
    EncryptedBlob(salt, nonce, aead_encrypt(derive_key(device_id, salt), nonce, plaintext))

\* a decrypt that does not authenticate: the text comes out under any key
decrypt_unauthenticated(device_id, blob) == Ok(blob.ciphertext.plaintext)

\* crypto.rs:32-38
decrypt(device_id, blob) ==
    LET opened == aead_decrypt(derive_key(device_id, blob.salt), blob.nonce,
                               blob.ciphertext)
    IN  IF opened = None THEN Err ELSE Ok(unwrap(opened))

-----------------------------------------------------------------------------
(* security/device.rs.  The identity file is empty, a plain identifier (the *)
(* legacy form) or "v1:" with a nonce and a sealed identifier.              *)

DEVICE_FILE == "device_id"

\* device.rs:116-126, from DEVICE_KEY_SEED and DEVICE_KEY_SALT
derive_device_key == derive_key("Ech0N0te", "echonote-device-key")

PlainIdentity(id) == [form |-> "plain", id |-> id]

\* device.rs:69-84
encrypt_device_id(id, nonce) ==
    [form |-> "v1", nonce |-> nonce, sealed |-> aead_encrypt(derive_device_key, nonce, id)]


\* device.rs:86-114; Err as None
decrypt_device_id(content) == aead_decrypt(derive_device_key, content.nonce, content.sealed)

\* device.rs:53-67; Err as None
read_existing(content) ==
    IF content.form = "empty" THEN None
    ELSE IF content.form = "v1" THEN decrypt_device_id(content)
    ELSE Some(content.id)

\* device.rs:40-44: the identifier of a file that is there and can be read
existing_device_id(dir) ==
    IF dir[DEVICE_FILE] = None THEN None ELSE read_existing(unwrap(dir[DEVICE_FILE]))

\* Uuid::new_v4() and the nonce of encrypt_device_id
Uuids == {"u1", "u2"}

\* what a call of device_id draws: a new identifier, its nonce and the fate of
\* the write, when the cell is empty and no identity file can be read
DeviceDraws(dir, cell) ==
    IF cell # None \/ existing_device_id(dir) # None
    THEN {[uuid |-> "u1", nonce |-> "n1", io_ok |-> TRUE]}
    ELSE [uuid : Uuids, nonce : {"n1"}, io_ok : BOOLEAN]

\* device.rs:31-51 in one piece, for a caller that nothing interleaves with:
\* the result, the directory and the cell after device_id
device_id_of(dir, cell, draw) ==
    IF cell # None THEN [ret |-> Ok(unwrap(cell)), dir |-> dir, cell |-> cell]
    ELSE IF existing_device_id(dir) # None
    THEN [ret |-> Ok(unwrap(existing_device_id(dir))), dir |-> dir,
          cell |-> existing_device_id(dir)]
    ELSE IF draw.io_ok
    THEN [ret |-> Ok(draw.uuid),
          dir |-> [dir EXCEPT ![DEVICE_FILE] =
                        Some(encrypt_device_id(draw.uuid, draw.nonce))],
          cell |-> Some(draw.uuid)]
    ELSE [ret |-> Err, dir |-> dir, cell |-> cell]

-----------------------------------------------------------------------------
(* security/secrets.rs *)

SECRET_FILE_NAME == "ai_config.json"
LEGACY_FILE_NAME == "ai_keys.json"

\* BASE64.encode and BASE64.decode
base64_encode(bytes) == <<"base64", bytes>>
base64_decode(text) == text[2]

\* secrets.rs:18-29
ProviderSlot(salt, nonce, ciphertext, model_list, base_url, selected_model) ==
    [salt |-> salt, nonce |-> nonce, ciphertext |-> ciphertext,
     model_list |-> model_list, base_url |-> base_url, selected_model |-> selected_model]

\* secrets.rs:196-233; Err (a field is missing) as None
deserialize_blob(secret) ==
    IF secret.salt = None \/ secret.nonce = None \/ secret.ciphertext = None THEN None
    ELSE Some(EncryptedBlob(base64_decode(unwrap(secret.salt)),
                            base64_decode(unwrap(secret.nonce)),
                            base64_decode(unwrap(secret.ciphertext))))

\* secrets.rs:146-157
load_store(dir) ==
    IF dir[SECRET_FILE_NAME] = None
    THEN IF dir[LEGACY_FILE_NAME] # None THEN unwrap(dir[LEGACY_FILE_NAME])
         ELSE EmptyMap
    ELSE unwrap(dir[SECRET_FILE_NAME])

\* secrets.rs:169-178
persist_store(dir, store) == [dir EXCEPT ![SECRET_FILE_NAME] = Some(store)]

\* secrets.rs:37-50
slot_of(store, provider_id, blob) ==
    ProviderSlot(Some(base64_encode(blob.salt)), Some(base64_encode(blob.nonce)),
                 Some(base64_encode(blob.ciphertext)),
                 IF provider_id \in DOMAIN store THEN store[provider_id].model_list ELSE None,
                 IF provider_id \in DOMAIN store THEN store[provider_id].base_url ELSE None,
                 IF provider_id \in DOMAIN store THEN store[provider_id].selected_model
                 ELSE None)

Providers == {"p1", "p2"}
ApiKeys == {"k1", "k2"}

-----------------------------------------------------------------------------
(* ai_migration.rs and the files it works on.  The current layout keeps   *)
(* the credentials in one file and the preferences in another; the legacy  *)
(* layout kept both in one file.                                           *)

LEGACY_COMBINED == "legacy combined file"
SECRETS == "current secret file"
PREFS_FILE_NAME == "ai_preferences.json"
BACKUP == "legacy combined file.bak"

NoFiles ==
    [f \in {DEVICE_FILE, SECRET_FILE_NAME, LEGACY_FILE_NAME,
            LEGACY_COMBINED, SECRETS, PREFS_FILE_NAME, BACKUP} |-> None]

ThreadIds == 1..MaxThreads
IdleThread == [pc |-> "idle", ret |-> Err, wrote |-> None]
NoMigration == [pc |-> "idle", runs |-> <<>>, legacy_store |-> EmptyMap]

\* the process has started and none of this has been called
SecIdle ==
    /\ app_dir = NoFiles
    /\ DEVICE_ID = None
    /\ threads = [t \in ThreadIds |-> IdleThread]
    /\ migration = NoMigration
    /\ vault_saved = [p \in Providers |-> None]

-----------------------------------------------------------------------------
(* The data directory the process finds when it starts *)

\* a file an earlier run of the program wrote
EarlierFile(d) ==
    document(DiaryEntry(<<0, DayNumber[d]>>, fingerprint(<<"c">>), d, None,
                        Some(<<"c">>), Some("en")), <<"c">>)

\* a file whose header was edited by hand: the date field is not a date
EditedFile(d) ==
    document(DiaryEntry(<<0, DayNumber[d]>>, fingerprint(<<"c">>),
                        IF d = "2025-01-01" THEN "bad-1" ELSE "bad-2", None,
                        Some(<<"c">>), Some("en")), <<"c">>)

InitialDirectories ==
    {[d \in {"2025-01-01"} |-> EarlierFile(d)], [d \in Dates |-> EditedFile(d)]}

NoTask == [pc |-> "none"]
IdleReader == [pc |-> "idle"]

\* the entry service at process start, over a data directory
CoreStart(directory) ==
    /\ STORE = EmptyMap
    /\ disk = directory
    /\ LOGICAL_COUNTER = 0
    /\ saves = [s \in SaveIds |-> [pc |-> "idle"]]
    /\ tasks = [s \in SaveIds |-> NoTask]
    /\ reader = IdleReader
    /\ lister = [pc |-> "idle"]
    /\ calls = 0
    /\ events = <<>>

\* nothing has been called yet
Init ==
    /\ \E directory \in InitialDirectories : CoreStart(directory)
    /\ arg = [fn |-> "none"]
    /\ result = None
    /\ issued = <<>>
    /\ SecIdle

-----------------------------------------------------------------------------
(* The STORE mutex.  Every critical section of a command is one action, so a *)
(* command holds the mutex at none of the places where it stands between two *)
(* actions; the same is true of a task, whose guard lives in the block of    *)
(* l.640-662, after the loop that awaits the AI.                             *)

\* a task that keeps the guard while it awaits the AI and between retries
mutex_held_while_waiting(task) == task.pc = "request"

\* entry_service.rs:610-622, 640-662: does the task hold the guard where it stands
mutex_held(task) == FALSE

\* STORE.lock() succeeds at once
MutexFree == \A s \in SaveIds : ~mutex_held(tasks[s])

-----------------------------------------------------------------------------
(* History kept with a call: the calls that had returned when it began *)

Returned == {r \in SaveIds : saves[r].pc = "done"}

-----------------------------------------------------------------------------
(* save_entry_by_date *)

\* entry_service.rs:144-169: the first critical section and build_summary.
\* `after` is history: the calls that had returned when this one began.
SaveBegin(s, date, body, ai) ==
    /\ saves[s].pc = "idle"
    /\ MutexFree
    /\ calls < MaxCalls
    /\ calls' = calls + 1
    /\ \A r \in SaveIds : r < s => saves[r].pc # "idle"
    /\ \E timestamp \in {1} :
        LET existing_summary ==
                IF date \in DOMAIN STORE THEN Some(STORE[date].summary) ELSE None
            ai_payload == and_then_sanitize(ai)
            summary == build_summary(existing_summary, date, body,
                                     ai_summary_text(ai_payload, body),
                                     <<timestamp, LOGICAL_COUNTER>>)
        IN  saves' = [saves EXCEPT ![s] =
                [pc |-> "write", date |-> date, body |-> body,
                 ai_payload |-> ai_payload, summary |-> summary,
                 after |-> Returned, ret |-> "pending"]]
    \* fetch_add on the AtomicU64; MaxSaves calls stay far below 2^64
    /\ LOGICAL_COUNTER' = LOGICAL_COUNTER + 1
    /\ UNCHANGED <<STORE, disk, tasks, reader, lister, events, auxVars>>

\* the `?` of l.172 left out: a failed write is reported, and the call goes on
\* to the cache and the spawn all the same
SaveWriteCachingOnError(s) ==
    /\ saves[s].pc = "write"
    /\ \E io_ok \in BOOLEAN :
        LET written == write_entry(disk, saves[s].summary, saves[s].body)
        IN  IF io_ok /\ written # None
            THEN /\ disk' = unwrap(written)
                 /\ saves' = [saves EXCEPT ![s].pc = "store"]
                 /\ UNCHANGED <<STORE, tasks>>
            ELSE /\ disk' = disk
                 /\ saves' = [saves EXCEPT ![s].pc = "done", ![s].ret = "err"]
                 /\ STORE' = prune_store_capacity(
                        insert(STORE, saves[s].date,
                               EntryRecord(saves[s].summary, saves[s].body)))
                 /\ tasks' = IF saves[s].ai_payload # None
                             THEN [tasks EXCEPT ![s] =
                                    [pc |-> "request", date |-> saves[s].date,
                                     body |-> saves[s].body,
                                     expected_hash |-> saves[s].summary.hash,
                                     attempts |-> 0, result |-> None,
                                     updated |-> None, ret |-> "pending"]]
                             ELSE tasks
    /\ UNCHANGED <<LOGICAL_COUNTER, reader, lister, events, calls, auxVars>>

\* entry_service.rs:171-172: storage::write_entry, outside the mutex
SaveWrite(s) ==
    /\ saves[s].pc = "write"
    /\ \E io_ok \in BOOLEAN :
        LET written == write_entry(disk, saves[s].summary, saves[s].body)
        IN  IF io_ok /\ written # None
            THEN /\ disk' = unwrap(written)
                 /\ saves' = [saves EXCEPT ![s].pc = "store"]
            ELSE /\ disk' = disk
                 /\ saves' = [saves EXCEPT ![s].pc = "done", ![s].ret = "err"]
    /\ UNCHANGED <<STORE, LOGICAL_COUNTER, tasks, reader, lister, events, calls, auxVars>>

save_into_store(store, date, summary, body) ==
    prune_store_capacity(insert(store, date, EntryRecord(summary, body)))

\* entry_service.rs:580-594: the task and what it captured
spawn_metadata_refresh(s) ==
    [pc |-> "request", date |-> saves[s].date, body |-> saves[s].body,
     expected_hash |-> saves[s].summary.hash, attempts |-> 0,
     result |-> None, updated |-> None, ret |-> "pending"]

\* entry_service.rs:174-197: the second critical section, the spawn, the return
SaveStore(s) ==
    /\ saves[s].pc = "store"
    /\ MutexFree
    /\ STORE' = save_into_store(STORE, saves[s].date, saves[s].summary, saves[s].body)
    /\ tasks' = IF saves[s].ai_payload # None
                THEN [tasks EXCEPT ![s] = spawn_metadata_refresh(s)]
                ELSE tasks
    /\ saves' = [saves EXCEPT ![s].pc = "done", ![s].ret = "ok"]
    /\ UNCHANGED <<disk, LOGICAL_COUNTER, reader, lister, events, calls, auxVars>>

-----------------------------------------------------------------------------
(* The AI summary: request_ai_summary and the parsing of its response *)

sanitize_emoji_text(value) ==
    IF value = None THEN None
    ELSE LET trimmed == trim(unwrap(value))
         IN  IF trimmed = <<>> \/ Len(trimmed) > 8 THEN None ELSE Some(trimmed)

\* Some(index) of the first ':' or fullwidth colon
find_summary_delimiter(value) ==
    LET hits == {i \in 1..Len(value) : value[i] \in {":", "FULLWIDTH COLON"}}
    IN  IF hits = {} THEN None ELSE Some(CHOOSE i \in hits : \A j \in hits : i <= j)

RECURSIVE trim_start_matches(_, _)
trim_start_matches(s, ch) ==
    IF s # <<>> /\ Head(s) = ch THEN trim_start_matches(Tail(s), ch) ELSE s

AiSummaryResult(summary, emoji) == [summary |-> summary, emoji |-> emoji]

parse_ai_summary_fallback(raw) ==
    LET found == find_summary_delimiter(raw)
        idx == unwrap(found)
        emoji_candidate == trim(trim_start_matches(trim(SubSeq(raw, 1, idx - 1)), "$"))
        summary_candidate == trim(SubSeq(raw, idx + 1, Len(raw)))
        summary_text == IF summary_candidate = <<>> THEN raw ELSE summary_candidate
    IN  IF found # None
        THEN AiSummaryResult(summary_text, sanitize_emoji_text(Some(emoji_candidate)))
        ELSE AiSummaryResult(raw, None)

\* entry_service.rs:772-787.  A text is a sequence of characters in which a
\* code fence (three backticks, "FENCE") and a JSON string literal (written
\* with its quotes) are one element each.
strip_code_fence_block(input) ==
    LET trimmed == trim(input)
        breaks == {i \in 1..Len(trimmed) : trimmed[i] = "\n"}
        first == CHOOSE i \in breaks : \A j \in breaks : i <= j
        rest == SubSeq(trimmed, first + 1, Len(trimmed))
        fences == {i \in 1..Len(rest) : rest[i] = "FENCE"}
        end_idx == CHOOSE i \in fences : \A j \in fences : j <= i
    IN  IF trimmed = <<>> \/ Head(trimmed) # "FENCE" THEN trimmed
        ELSE IF breaks = {} THEN trimmed
        ELSE IF fences # {} THEN trim(SubSeq(rest, 1, end_idx - 1))
        ELSE trim(rest)

\* entry_service.rs:741-747, with serde_json::from_str for AiSummaryJsonPayload
\* (l.719-723) on objects of up to two members whose values are string
\* literals or null: white space between the tokens is skipped, unknown
\* members are ignored, a member given twice is an error; and
\* sanitize_summary_text (l.789-800).  None is a text serde_json rejects.
parse_ai_summary_json(raw) ==
    LET block == strip_code_fence_block(raw)
        literal == ("\"summary\"" :> <<"s", "u", "m", "m", "a", "r", "y">>)
                   @@ ("\"emoji\"" :> <<"e", "m", "o", "j", "i">>)
                   @@ ("\"s\"" :> <<"s">>) @@ ("\"E\"" :> <<"E">>)
                   @@ ("\" \"" :> <<" ">>)
        visible(c) == c \notin WHITESPACE
        toks == SelectSeq(block, visible)
        n == Len(toks)
        members == {m \in {2, 6} : m + 2 < n}
        well_formed ==
            /\ n \in {2, 5, 9}
            /\ toks[1] = "{" /\ toks[n] = "}"
            /\ \A m \in members :
                  /\ toks[m] \in DOMAIN literal
                  /\ toks[m + 1] = ":"
                  /\ toks[m + 2] \in DOMAIN literal \cup {"null"}
            /\ n = 9 => /\ toks[5] = ","
                        /\ ~(toks[2] = toks[6] /\ toks[2] \in {"\"summary\"", "\"emoji\""})
        field(key) ==
            LET at == {m \in members : toks[m] = key}
                m == CHOOSE m \in at : TRUE
            IN  IF at = {} \/ toks[m + 2] = "null" THEN None
                ELSE Some(literal[toks[m + 2]])
        summary == field("\"summary\"")
        sanitize_summary_text ==
            IF summary = None \/ trim(unwrap(summary)) = <<>> THEN trim(block)
            ELSE trim(unwrap(summary))
    IN  IF ~well_formed THEN None
        ELSE Some(AiSummaryResult(sanitize_summary_text,
                                  sanitize_emoji_text(field("\"emoji\""))))

\* entry_service.rs:725-739
parse_ai_summary_response(raw) ==
    LET trimmed == trim(raw)
    IN  IF trimmed = <<>> THEN AiSummaryResult(<<>>, None)
        ELSE IF parse_ai_summary_json(trimmed) # None
             THEN unwrap(parse_ai_summary_json(trimmed))
        ELSE parse_ai_summary_fallback(trimmed)

\* what invoke_ai_chat may answer with: Ok(result) as Some, Err (no
\* credential, network, decode) as None
AiOutcomes ==
    {None} \cup {Some(parse_ai_summary_response(c)) : c \in {<<"E", ":", "s">>, <<" ">>}}

-----------------------------------------------------------------------------
(* regenerate_entry_metadata *)

\* entry_service.rs:610-622: one turn of the retry loop.  `attempts` is read
\* only by the loop (and a log line), so the model forgets it at the loop's exit.
TaskRequest(s) ==
    /\ tasks[s].pc = "request"
    /\ tasks[s].attempts < max_attempts
    /\ \E summary_result \in AiOutcomes :
        IF summary_result # None
        THEN tasks' = [tasks EXCEPT ![s].result = summary_result,
                                    ![s].attempts = 0, ![s].pc = "commit"]
        ELSE IF tasks[s].attempts + 1 < max_attempts
        THEN tasks' = [tasks EXCEPT ![s].attempts = @ + 1]
        ELSE tasks' = [tasks EXCEPT ![s].attempts = 0, ![s].pc = "commit"]
    /\ UNCHANGED <<STORE, disk, LOGICAL_COUNTER, saves, reader, lister, events, calls, auxVars>>

\* entry_service.rs:624-638: the AI result, or the local summary after the failures
final_result(task) ==
    IF task.result # None THEN unwrap(task.result)
    ELSE AiSummaryResult(unwrap_or(summarize_body(task.body), EMPTY_ENTRY_SUMMARY), None)

\* the guard left out: every result is committed
hash_ignored(record, expected_hash) == TRUE

\* entry_service.rs:648: the stale-write guard
hash_matches(record, expected_hash) == record.summary.hash = expected_hash

\* entry_service.rs:652-657
updated_summary(record, task) ==
    LET res == final_result(task)
    IN  [record.summary EXCEPT
            !.ai_summary = Some(res.summary),
            !.emoji = IF res.emoji # None THEN res.emoji ELSE @,
            !.language = detect_language(task.body)]

\* a task that returned: its captured values are dropped; `ret` tells how it
\* ended (Ok(()) for "absent", "stale" and "ok"; Err for the other two)
FinishedTask(task, ret) ==
    [pc |-> "done", date |-> task.date, expected_hash |-> task.expected_hash, ret |-> ret]

\* entry_service.rs:640-662: the critical section that commits the result
TaskCommit(s) ==
    /\ tasks[s].pc = "commit"
    /\ MutexFree
    /\ LET date == tasks[s].date IN
        IF date \notin DOMAIN STORE
        THEN /\ tasks' = [tasks EXCEPT ![s] = FinishedTask(tasks[s], "absent")]
             /\ STORE' = STORE
        ELSE IF ~hash_matches(STORE[date], tasks[s].expected_hash)
        THEN /\ tasks' = [tasks EXCEPT ![s] = FinishedTask(tasks[s], "stale")]
             /\ STORE' = STORE
        ELSE LET summary == updated_summary(STORE[date], tasks[s])
             IN  /\ STORE' = [STORE EXCEPT ![date] = EntryRecord(summary, tasks[s].body)]
                 /\ tasks' = [tasks EXCEPT ![s].pc = "write",
                                            ![s].updated = Some(summary)]
    /\ UNCHANGED <<disk, LOGICAL_COUNTER, saves, reader, lister, events, calls, auxVars>>

\* the event sent twice
emit_twice(sent, payload) == sent \o <<payload, payload>>

\* entry_service.rs:665: app.emit(ENTRY_METADATA_EVENT, &updated_summary)
emit(sent, payload) == Append(sent, payload)

\* the task's error handed to the save that spawned it
TaskWriteFailingTheSave(s) ==
    /\ tasks[s].pc = "write"
    /\ \E io_ok \in BOOLEAN, emit_ok \in BOOLEAN :
        LET summary == unwrap(tasks[s].updated)
            written == write_entry(disk, summary, tasks[s].body)
        IN  IF ~(io_ok /\ written # None)
            THEN /\ tasks' = [tasks EXCEPT ![s] = FinishedTask(tasks[s], "write_err")]
                 /\ saves' = [saves EXCEPT ![s].ret = "err"]
                 /\ UNCHANGED <<disk, events>>
            ELSE /\ disk' = unwrap(written)
                 /\ IF emit_ok
                    THEN /\ events' = emit(events, summary)
                         /\ tasks' = [tasks EXCEPT ![s] = FinishedTask(tasks[s], "ok")]
                         /\ saves' = saves
                    ELSE /\ events' = events
                         /\ tasks' = [tasks EXCEPT ![s] = FinishedTask(tasks[s], "emit_err")]
                         /\ saves' = [saves EXCEPT ![s].ret = "err"]
    /\ UNCHANGED <<STORE, LOGICAL_COUNTER, reader, lister, calls, auxVars>>

\* entry_service.rs:664-667: storage::write_entry outside the mutex, then the event
TaskWrite(s) ==
    /\ tasks[s].pc = "write"
    /\ \E io_ok \in BOOLEAN, emit_ok \in BOOLEAN :
        LET summary == unwrap(tasks[s].updated)
            written == write_entry(disk, summary, tasks[s].body)
        IN  IF ~(io_ok /\ written # None)
            THEN /\ tasks' = [tasks EXCEPT ![s] = FinishedTask(tasks[s], "write_err")]
                 /\ UNCHANGED <<disk, events>>
            ELSE /\ disk' = unwrap(written)
                 /\ IF emit_ok
                    THEN /\ events' = emit(events, summary)
                         /\ tasks' = [tasks EXCEPT ![s] = FinishedTask(tasks[s], "ok")]
                    ELSE /\ events' = events
                         /\ tasks' = [tasks EXCEPT ![s] = FinishedTask(tasks[s], "emit_err")]
    /\ UNCHANGED <<STORE, LOGICAL_COUNTER, saves, reader, lister, calls, auxVars>>

-----------------------------------------------------------------------------
(* get_entry_body_by_date and load_entry_summary *)

\* entry_service.rs:109-113 and 357: what the cache answers with
cache_hit(store, op, date) ==
    IF date \notin DOMAIN store THEN None
    ELSE IF op = "summary" THEN Some(store[date].summary)
    ELSE IF fingerprint(store[date].body) = store[date].summary.hash
         THEN Some(store[date].body)
    ELSE None

\* entry_service.rs:105-116 / 353-360: the lookup under the mutex; a hit returns
ReadBegin(op, date) ==
    /\ reader.pc = "idle"
    /\ MutexFree
    /\ calls < MaxCalls
    /\ calls' = calls + 1
    /\ reader' = IF cache_hit(STORE, op, date) # None THEN IdleReader
                 ELSE [pc |-> "load", date |-> date]
    /\ UNCHANGED <<STORE, disk, LOGICAL_COUNTER, saves, tasks, lister, events, auxVars>>

\* entry_service.rs:118 / 362: storage::load_entry, outside the mutex; no file returns
ReadLoad ==
    /\ reader.pc = "load"
    /\ LET record == load_entry(disk, reader.date)
       IN  reader' = IF record = None THEN IdleReader
                     ELSE [pc |-> "insert", date |-> reader.date,
                           record |-> unwrap(record)]
    /\ UNCHANGED <<STORE, disk, LOGICAL_COUNTER, saves, tasks, lister, events, calls, auxVars>>

\* entry_service.rs:119-125 / 363-369: insert under the mutex, prune, return
ReadInsert ==
    /\ reader.pc = "insert"
    /\ MutexFree
    /\ STORE' = prune_store_capacity(insert(STORE, reader.date, reader.record))
    /\ reader' = IdleReader
    /\ UNCHANGED <<disk, LOGICAL_COUNTER, saves, tasks, lister, events, calls, auxVars>>

-----------------------------------------------------------------------------
(* list_entries_by_month *)

\* entry_service.rs:541: storage::load_month_entries, before the mutex is taken
ListLoad ==
    /\ lister.pc = "idle"
    /\ calls < MaxCalls
    /\ calls' = calls + 1
    /\ lister' = [pc |-> "insert", records |-> load_month_entries(disk)]
    /\ UNCHANGED <<STORE, disk, LOGICAL_COUNTER, saves, tasks, reader, events, auxVars>>

\* the store after `for record in records { store.insert(summary.date, record) }`
insert_all(store, records) ==
    LET keys == {r.summary.date : r \in records}
    IN  [k \in DOMAIN store \cup keys |->
            IF k \in keys THEN CHOOSE r \in records : r.summary.date = k
            ELSE store[k]]

\* entry_service.rs:542-558: the inserts under the mutex, prune, return
ListStore ==
    /\ lister.pc = "insert"
    /\ MutexFree
    /\ STORE' = prune_store_capacity(insert_all(STORE, lister.records))
    /\ lister' = [pc |-> "idle"]
    /\ UNCHANGED <<disk, LOGICAL_COUNTER, saves, tasks, reader, events, calls, auxVars>>

Next ==
    \/ \E s \in SaveIds, date \in Dates, body \in {<<"a">>, <<"\n", "b">>}, ai \in AiInputs :
          SaveBegin(s, date, body, ai)
    \/ \E s \in SaveIds : SaveWrite(s)
    \/ \E s \in SaveIds : SaveStore(s)
    \/ \E s \in SaveIds : TaskRequest(s)
    \/ \E s \in SaveIds : TaskCommit(s)
    \/ \E s \in SaveIds : TaskWrite(s)
    \/ \E op \in {"body", "summary"}, date \in Dates : ReadBegin(op, date)
    \/ ReadLoad
    \/ ReadInsert
    \/ ListLoad
    \/ ListStore

Spec == Init /\ [][Next]_vars

\* the runtime keeps polling the spawned tasks: while some task can take a
\* step (its AI call has answered or failed, or it does not wait), one does
FairSpec ==
    Spec /\ WF_vars(\E s \in SaveIds : TaskRequest(s) \/ TaskCommit(s) \/ TaskWrite(s))

-----------------------------------------------------------------------------
(* Vocabulary of the properties *)

SaveOk(s) == saves[s].pc = "done" /\ saves[s].ret = "ok"

\* no other call saved to s's date, except calls that had returned before s began
LastSaveOn(s) ==
    \A r \in SaveIds \ {s} :
        \/ saves[r].pc = "idle"
        \/ saves[r].date # saves[s].date
        \/ r \in saves[s].after

\* the cache holds no record of s's date with another content_hash
NoOtherVersionCached(s) ==
    saves[s].date \in DOMAIN STORE
        => STORE[saves[s].date].summary.hash = saves[s].summary.hash

\* what get_entry_body_by_date(date) returns when it runs now, start to end
get_entry_body_by_date(date) ==
    LET hit == cache_hit(STORE, "body", date)
        record == load_entry(disk, date)
    IN  IF hit # None THEN hit
        ELSE IF record # None THEN Some(unwrap(record).body)
        ELSE None

\* the metadata that goes with that answer
metadata_by_date(date) ==
    IF cache_hit(STORE, "body", date) # None THEN Some(STORE[date].summary)
    ELSE IF date \in DOMAIN disk THEN Some(unwrap(load_entry(disk, date)).summary)
    ELSE None

\* every file's header carries the date of the file's name
HeadersMatchFileNames == \A f \in DOMAIN disk : disk[f].summary.date = f

\* nothing that writes the cache or the disk is between two of its steps
Quiescent ==
    /\ \A s \in SaveIds : saves[s].pc \in {"idle", "done"}
    /\ \A s \in SaveIds : tasks[s].pc # "write"
    /\ lister.pc = "idle"

-----------------------------------------------------------------------------
(* C1..C10 *)

\* C1: of two saves to one date, the first with enrichment and the second with
\* a different body and begun after the first returned, the second wins: once
\* the second save and the first save's task have finished, the file of the
\* date, and the cached record if there is one, hold the second save's body
\* and content_hash.
C1_SecondSaveWins ==
    \A s1, s2 \in SaveIds :
        LET d == saves[s2].date IN
        ( /\ SaveOk(s1) /\ SaveOk(s2)
          /\ s1 \in saves[s2].after
          /\ saves[s1].date = d
          /\ saves[s1].ai_payload # None
          /\ saves[s1].body # saves[s2].body
          /\ tasks[s1].pc = "done"
          /\ tasks[s2].pc \in {"none", "done"}
          /\ LastSaveOn(s2) )
        => /\ d \in DOMAIN disk
           /\ disk[d].summary.hash = saves[s2].summary.hash
           /\ disk[d].rest = document(saves[s2].summary, saves[s2].body).rest
           /\ d \in DOMAIN STORE =>
                /\ STORE[d].summary.hash = saves[s2].summary.hash
                /\ STORE[d].body \in {saves[s2].body, <<>>}

\* C2: a task that reaches its commit step while the cached content_hash of
\* its date differs from the hash it captured ends there: the cache, the disk
\* and the emitted events are left as they were.
C2_StaleResultDiscarded ==
    [][\A s \in SaveIds :
          ( /\ tasks[s].pc = "commit"
            /\ tasks'[s].pc # "commit"
            /\ tasks[s].date \in DOMAIN STORE
            /\ STORE[tasks[s].date].summary.hash # tasks[s].expected_hash )
          => /\ STORE' = STORE
             /\ disk' = disk
             /\ events' = events
             /\ tasks'[s].pc = "done"]_vars

C2_Witness ==
    \E s \in SaveIds : tasks[s].pc = "done" /\ tasks[s].ret = "stale"

\* C3: two overlapping saves to one date (neither asks for enrichment) leave the
\* cache and the disk with the same metadata/body pair once both have returned.
C3_SavesSerialized ==
    \A s, r \in SaveIds :
        LET d == saves[s].date IN
        ( /\ s # r
          /\ SaveOk(s) /\ SaveOk(r)
          /\ saves[r].date = d
          /\ r \notin saves[s].after /\ s \notin saves[r].after
          /\ saves[s].ai_payload = None /\ saves[r].ai_payload = None
          /\ \A q \in SaveIds \ {s, r} : saves[q].pc = "idle" \/ saves[q].date # d
          /\ d \in DOMAIN STORE /\ STORE[d].body # <<>> )
        => /\ d \in DOMAIN disk
           /\ disk[d] = document(STORE[d].summary, STORE[d].body)

\* C4: after a successful save, with no other save to its date since, a read of
\* the date's body returns the saved body, and the metadata carries its hash.
C4_SaveThenRead ==
    \A s \in SaveIds :
        (SaveOk(s) /\ LastSaveOn(s) /\ NoOtherVersionCached(s))
        => /\ get_entry_body_by_date(saves[s].date) = Some(saves[s].body)
           /\ metadata_by_date(saves[s].date) # None
           /\ unwrap(metadata_by_date(saves[s].date)).hash = fingerprint(saves[s].body)

\* C5: every cached record's content_hash is the hash of its body.
C5_CachedHashIsHashOfBody ==
    \A k \in DOMAIN STORE : STORE[k].summary.hash = fingerprint(STORE[k].body)

\* C6: when the task of a save that asked for enrichment has finished without an
\* I/O error, and no other save to the date came after (the files being the
\* program's own), the pending placeholder
\* is gone from the date's file and cached record and the event was emitted.
C6_PendingIsReplaced ==
    \A s \in SaveIds :
        LET d == saves[s].date IN
        ( /\ tasks[s].pc = "done"
          /\ tasks[s].ret \notin {"write_err", "emit_err"}
          /\ LastSaveOn(s)
          /\ NoOtherVersionCached(s)
          /\ HeadersMatchFileNames )
        => /\ d \in DOMAIN disk
           /\ disk[d].summary.ai_summary # Some(AI_PENDING_SUMMARY)
           /\ d \in DOMAIN STORE => STORE[d].summary.ai_summary # Some(AI_PENDING_SUMMARY)
           /\ \E i \in 1..Len(events) :
                events[i].date = d /\ events[i].hash = tasks[s].expected_hash

\* C7: no step evicts the date a save inserts in that step, nor the date of a
\* task that has not committed or been discarded yet (the files being the
\* program's own).
C7_EvictionSparesWritesInFlight ==
    [][HeadersMatchFileNames =>
        \A s \in SaveIds :
          /\ (saves[s].pc = "store" /\ saves'[s].pc = "done")
                => saves[s].date \in DOMAIN STORE'
          /\ (tasks[s].pc \in {"request", "commit"} /\ tasks[s].date \in DOMAIN STORE)
                => tasks[s].date \in DOMAIN STORE']_vars

\* C8: the cache never holds more than MAX_STORE_ENTRIES records.
C8_CacheWithinCeiling == Cardinality(DOMAIN STORE) <= MAX_STORE_ENTRIES

\* C9: when a save overwrites the stored entry of its date with another body,
\* the content_hash changes and the id stays.
C9_ResaveKeepsId ==
    [][\A s \in SaveIds :
          LET d == saves[s].date IN
          ( /\ saves[s].pc = "write" /\ saves'[s].pc = "store"
            /\ d \in DOMAIN disk
            /\ disk[d].summary.date = d
            /\ disk[d].summary.hash # fingerprint(saves[s].body) )
          => /\ disk'[d].summary.hash # disk[d].summary.hash
             /\ disk'[d].summary.hlc = disk[d].summary.hlc]_vars

\* C10: whenever no save, listing or enrichment commit is between two of its
\* steps, the cached metadata of every date is the metadata in the date's
\* file; stated for the states after an enrichment commit whose disk write
\* failed, with no later save to the date.
C10_CacheMetadataIsDiskMetadata ==
    \A s \in SaveIds :
        ( /\ Quiescent
          /\ tasks[s].pc = "done" /\ tasks[s].ret = "write_err"
          /\ LastSaveOn(s) )
        => \A d \in DOMAIN STORE \cap Dates :
              d \in DOMAIN disk /\ STORE[d].summary = disk[d].summary

-----------------------------------------------------------------------------
(* C11..C20 *)

\* C11: the step in which a save's disk write fails ends the call with an
\* error and leaves the cache and the tasks as they were; a call that returned
\* an error never has a task.
C11_FailedWriteLeavesCache ==
    [][\A s \in SaveIds :
          /\ (saves[s].pc = "write" /\ saves'[s].pc = "done")
                => /\ saves'[s].ret = "err"
                   /\ STORE' = STORE
                   /\ tasks' = tasks
          /\ (saves'[s].pc = "done" /\ saves'[s].ret = "err")
                => tasks'[s] = NoTask]_vars

C11_Witness ==
    \E s \in SaveIds :
        /\ saves[s].pc = "done" /\ saves[s].ret = "err"
        /\ saves[s].ai_payload # None

\* the local summary a task falls back to
local_summary(body) == unwrap_or(summarize_body(body), EMPTY_ENTRY_SUMMARY)

C13_EmptyResponseIsFailure ==
    [][\A s \in SaveIds :
          /\ (tasks[s].pc = "request" /\ tasks'[s].pc = "commit")
                => tasks'[s].result # Some(AiSummaryResult(<<>>, None))
          /\ (tasks[s].pc = "commit" /\ tasks'[s].pc = "write")
                => STORE'[tasks[s].date].summary.ai_summary # Some(<<>>)]_vars

\* the caller's parameters name a provider: after trimming, the provider id
\* is not empty and is not the sentinel
names_provider(ai) ==
    /\ ai # None
    /\ unwrap(ai).provider_id # None
    /\ trim(unwrap(unwrap(ai).provider_id)) \notin {<<>>, <<"noai">>}

\* C14: a save keeps enrichment parameters exactly when they name a provider,
\* and a save that returned has a task exactly when it kept them; a save that
\* kept none stored the local summary of its body.
C14_TaskIffProviderNamed ==
    /\ \A ai \in AiInputs : and_then_sanitize(ai) # None <=> names_provider(ai)
    /\ \A s \in SaveIds :
          SaveOk(s) =>
            /\ tasks[s] # NoTask <=> saves[s].ai_payload # None
            /\ saves[s].ai_payload = None
                  => saves[s].summary.ai_summary = Some(local_summary(saves[s].body))
            /\ saves[s].ai_payload # None
                  => saves[s].ai_payload \in {and_then_sanitize(ai) : ai \in AiInputs}

C14_Witness ==
    \E s, r \in SaveIds :
        /\ SaveOk(s) /\ saves[s].ai_payload = None /\ tasks[s] = NoTask
        /\ SaveOk(r) /\ saves[r].ai_payload # None /\ tasks[r] # NoTask

\* what load_entry_summary(date) returns when it runs now, start to end
load_entry_summary(date) ==
    LET hit == cache_hit(STORE, "summary", date)
        record == load_entry(disk, date)
    IN  IF hit # None THEN hit
        ELSE IF record # None THEN Some(unwrap(record).summary)
        ELSE None

\* C15: while the task of a save that asked for enrichment has not committed
\* and no other save to the date came after, a read of the date's summary
\* yields the pending placeholder.
C15_ReadersSeePending ==
    \A s \in SaveIds :
        ( /\ SaveOk(s)
          /\ saves[s].ai_payload # None
          /\ tasks[s].pc \in {"request", "commit"}
          /\ LastSaveOn(s) )
        => /\ load_entry_summary(saves[s].date) # None
           /\ unwrap(load_entry_summary(saves[s].date)).ai_summary
                = Some(AI_PENDING_SUMMARY)

\* C16: an event is emitted only in the step in which a task, having committed
\* its metadata to the cache, writes the file successfully, and it carries that
\* metadata; a task whose write fails emits nothing; there are as many events
\* as tasks that ended so, one for each.
C16_OneEventAfterBothWrites ==
    [][/\ events' # events
            => \E s \in SaveIds :
                 LET written == unwrap(tasks[s].updated) IN
                 /\ tasks[s].pc = "write"
                 /\ tasks'[s].pc = "done" /\ tasks'[s].ret = "ok"
                 /\ events' = Append(events, written)
                 /\ tasks[s].date \in DOMAIN disk'
                 /\ disk'[tasks[s].date] = document(written, tasks[s].body)
       /\ \A s \in SaveIds :
            /\ (tasks[s].pc = "commit" /\ tasks'[s].pc = "write")
                  => STORE'[tasks[s].date]
                        = EntryRecord(unwrap(tasks'[s].updated), tasks[s].body)
            /\ (tasks[s].pc = "write" /\ tasks'[s].ret = "write_err")
                  => events' = events /\ disk' = disk
       /\ Len(events') = Cardinality({s \in SaveIds :
                              tasks'[s].pc = "done" /\ tasks'[s].ret = "ok"})]_vars

C16_Witness ==
    \E s, r \in SaveIds :
        /\ tasks[s].pc = "done" /\ tasks[s].ret = "ok"
        /\ tasks[r].pc = "done" /\ tasks[r].ret = "write_err"
        /\ Len(events) = 1

\* C17: a save has returned Ok, for good, when its task exists: no step changes
\* what a save returned, and no step of a task changes any save.
C17_TaskNeverChangesTheSave ==
    [][\A s \in SaveIds :
          /\ saves[s].pc = "done" => saves'[s] = saves[s]
          /\ tasks'[s] # NoTask => SaveOk(s)'
          /\ (tasks[s] # NoTask /\ tasks'[s] # tasks[s]) => saves' = saves]_vars

C17_Witness ==
    \E s \in SaveIds :
        /\ SaveOk(s)
        /\ tasks[s].pc = "done"
        /\ tasks[s].ret \in {"write_err", "emit_err"}

SavedInDateOrder ==
    LET started == {s \in SaveIds : saves[s].pc # "idle"} IN
    /\ calls = Cardinality(started)
    /\ \A s \in started : SaveOk(s)
    /\ \A s \in started : \A r \in started :
          r < s => /\ r \in saves[s].after
                   /\ DayNumber[saves[r].date] < DayNumber[saves[s].date]

\* C19: after saves in increasing date order the cache holds the saved dates
\* up to the ceiling, and they are the latest ones: a saved date is cached
\* exactly when fewer than MAX_STORE_ENTRIES saved dates are later.
C19_LatestDatesStayCached ==
    SavedInDateOrder =>
        LET saved == {saves[s].date : s \in {r \in SaveIds : saves[r].pc # "idle"}}
        IN  DOMAIN STORE =
              {d \in saved :
                 Cardinality({e \in saved : DayNumber[e] > DayNumber[d]})
                    < MAX_STORE_ENTRIES}

C19_Witness ==
    /\ SavedInDateOrder
    /\ Cardinality({s \in SaveIds : saves[s].pc # "idle"}) > MAX_STORE_ENTRIES
    /\ DOMAIN STORE = {"2025-01-02"}

\* C20: a read goes to the disk only after a cache miss; when the date has no
\* file the call returns and the cache is as it was; when it has one, the call
\* parses it and, in its last step, inserts that record under the date it was
\* asked for (the record is in the cache when the call returns unless the
\* insert took the cache over its ceiling and the pruning that follows removed
\* it).
C20_MissLoadsAndInserts ==
    [][/\ (reader.pc = "idle" /\ reader'.pc # "idle")
            => /\ reader'.pc = "load"
               /\ \/ reader'.date \notin DOMAIN STORE
                  \/ fingerprint(STORE[reader'.date].body)
                        # STORE[reader'.date].summary.hash
               /\ STORE' = STORE
       /\ (reader.pc = "load" /\ reader' # reader)
            => /\ STORE' = STORE
               /\ IF reader.date \in DOMAIN disk
                  THEN /\ reader'.pc = "insert"
                       /\ reader'.date = reader.date
                       /\ reader'.record = parse_document(disk[reader.date])
                  ELSE reader' = IdleReader
       /\ (reader.pc = "insert" /\ reader' # reader)
            => /\ reader' = IdleReader
               /\ \/ /\ reader.date \in DOMAIN STORE'
                     /\ STORE'[reader.date] = reader.record
                  \/ Cardinality(DOMAIN STORE \cup {reader.date})
                        > MAX_STORE_ENTRIES]_vars

C20_Witness ==
    /\ reader.pc = "idle"
    /\ \A s \in SaveIds : saves[s].pc = "idle"
    /\ \E d \in DOMAIN STORE \cap DOMAIN disk :
          STORE[d] = parse_document(disk[d]) /\ STORE[d].body # <<>>

-----------------------------------------------------------------------------
(* C21..C30 *)

(* next_hlc on its own: the calls of one process, whatever they are made for *)

\* entry_service.rs:523-528: the id of one call, as the text the code formats
next_hlc(timestamp, logical) == hlc_string(<<timestamp, logical>>)

NextHlc ==
    /\ Len(issued) < MaxIssued
    \* Utc::now().timestamp_millis(); the wall clock may step back
    /\ \E timestamp \in {1, 2} :
        issued' = Append(issued, [timestamp |-> timestamp,
                                  hlc |-> next_hlc(timestamp, LOGICAL_COUNTER)])
    /\ LOGICAL_COUNTER' = LOGICAL_COUNTER + 1
    /\ UNCHANGED <<STORE, disk, saves, tasks, reader, lister, calls, events,
                   arg, result, secVars>>

ClockSpec == Init /\ [][NextHlc]_vars

\* C29: of two ids one process generated in the same millisecond, the one
\* generated later is the greater one in the comparison the listing sort and
\* the eviction apply to ids (a.hlc.cmp(&b.hlc), on the two texts).
C29_LaterIdComparesGreater ==
    \A i, j \in 1..Len(issued) :
        (i < j /\ issued[i].timestamp = issued[j].timestamp)
            => str_less(issued[i].hlc, issued[j].hlc)

(* Single calls: a save that asks for no enrichment, up to build_summary,  *)
(* and storage::load_month_entries on a month directory.                   *)

Repeat(ch, n) == [i \in 1..n |-> ch]

\* bodies around the limit of summarize_body, with a line break inside and
\* white space at either end
LongBodies ==
    LET Margins == {<<>>, <<" ">>, <<"\n">>} IN
    {lead \o (IF n < 4 THEN Repeat("a", n)
              ELSE <<"a", "\n">> \o Repeat("b", n - 4) \o <<"\r", "c">>) \o trail :
        lead \in Margins, trail \in Margins,
        n \in {0, 1, 2, LIMIT - 1, LIMIT, LIMIT + 1, LIMIT + 2}}

\* a file whose header carries an ai_summary of n characters
LongHeaderFile(d, n) ==
    document(DiaryEntry(<<0, DayNumber[d]>>, fingerprint(<<"c">>), d, None,
                        Some(Repeat("s", n)), Some("en")), <<"c">>)

\* one call: a save that asks for no enrichment, a listing of a month
\* directory holding a header on either side of each read window, or a
\* write of a record followed by its load, over an empty directory or over
\* the file of an earlier run
PureInit ==
    /\ LET HeaderSizes == {1017, 1018, 3065, 3066}
           MonthDirectories ==
               {[d \in {"2025-01-01"} |-> LongHeaderFile(d, n)] : n \in HeaderSizes}
               \cup {[d \in Dates |-> IF d = "2025-01-01" THEN EarlierFile(d)
                                      ELSE LongHeaderFile(d, n)] : n \in HeaderSizes}
       IN  arg \in {[fn |-> "save", date |-> "2025-01-01", body |-> b, ai |-> ai] :
                        b \in LongBodies,
                        ai \in {a \in AiInputs : and_then_sanitize(a) = None}}
                   \cup {[fn |-> "list", files |-> f] : f \in MonthDirectories}
                   \cup {[fn |-> "write", body |-> b,
                          summary |->
                            build_summary(
                                IF e = "none" THEN None
                                ELSE IF e = "earlier" THEN Some(EarlierFile(d).summary)
                                ELSE Some([EarlierFile(d).summary
                                             EXCEPT !.emoji = Some("E")]),
                                d, b, s, <<1, 0>>)] :
                            d \in Dates,
                            b \in {<<>>, <<"a">>, <<" ", "a">>, <<"a", "\n">>,
                                   <<"\n", "b">>, <<"\r", "\n", "b">>},
                            s \in {EMPTY_ENTRY_SUMMARY, <<"s">>},
                            e \in {"none", "earlier", "earlier with emoji"}}
                   \* answers of the AI: `json` holds the members of the
                   \* answer when it is a JSON object, `fenced` tells that
                   \* the object stands in a code fence
                   \cup {[fn |-> "parse", raw |-> r, json |-> None, fenced |-> FALSE] :
                            r \in {<<"E", ":", "s">>, <<" ", "E", " ", ":", " ", "s", "\n">>,
                                   <<"E", "FULLWIDTH COLON", "s">>, <<"$", "E", ":", "s">>,
                                   <<"a", ":", "b", ":", "c">>, <<":", "s">>, <<"E", ":">>,
                                   <<"E", ":", " ">>, <<"s">>, <<" ", "s", " ">>, <<" ">>, <<>>,
                                   <<"1", "2", "3", "4", "5", "6", "7", "8", "9", ":", "s">>,
                                   <<"{", ":", "s", "}">>, <<"{", "s", "}">>,
                                   <<"FENCE", "\n", "E", ":", "s", "\n", "FENCE">>}}
                   \cup {[fn |-> "parse", raw |-> r[1], fenced |-> Head(r[1]) = "FENCE",
                          json |-> Some([summary |-> r[2], emoji |-> r[3]])] :
                            r \in {<<<<"{", "\"summary\"", ":", "\"s\"", ",",
                                       "\"emoji\"", ":", "\"E\"", "}">>,
                                     Some(<<"s">>), Some(<<"E">>)>>,
                                   <<<<" ", "{", "\"emoji\"", ":", "\"E\"", ",", " ",
                                       "\"summary\"", ":", "\"s\"", "}", "\n">>,
                                     Some(<<"s">>), Some(<<"E">>)>>,
                                   <<<<"{", "\"summary\"", ":", "\"s\"", "}">>,
                                     Some(<<"s">>), None>>,
                                   <<<<"{", "\"summary\"", ":", "\"s\"", ",",
                                       "\"emoji\"", ":", "null", "}">>,
                                     Some(<<"s">>), None>>,
                                   <<<<"{", "\"summary\"", ":", "\"s\"", ",",
                                       "\"emoji\"", ":", "\" \"", "}">>,
                                     Some(<<"s">>), Some(<<" ">>)>>,
                                   <<<<"{", "\"emoji\"", ":", "\"E\"", "}">>,
                                     None, Some(<<"E">>)>>,
                                   <<<<"FENCE", "\n", "{", "\"summary\"", ":", "\"s\"", ",",
                                       "\"emoji\"", ":", "\"E\"", "}", "\n", "FENCE">>,
                                     Some(<<"s">>), Some(<<"E">>)>>,
                                   <<<<"{", "}">>, None, None>>}}
    /\ \E directory \in {EmptyMap, [d \in {"2025-01-01"} |-> EarlierFile(d)]} :
          /\ CoreStart(directory)
          /\ arg.fn # "write" => directory = EmptyMap
    /\ result = None
    /\ issued = <<>>
    /\ SecIdle

\* entry_service.rs:156-169 for a date the cache does not hold
SaveSummary ==
    /\ arg.fn = "save"
    /\ result = None
    /\ \E timestamp \in {1} :
        result' = Some(build_summary(None, arg.date, arg.body,
                                     ai_summary_text(and_then_sanitize(arg.ai), arg.body),
                                     <<timestamp, LOGICAL_COUNTER>>))
    /\ LOGICAL_COUNTER' = LOGICAL_COUNTER + 1
    /\ UNCHANGED <<STORE, disk, saves, tasks, reader, lister, calls, events,
                   arg, issued, secVars>>

\* storage.rs:81-106
ListMonth ==
    /\ arg.fn = "list"
    /\ result = None
    /\ result' = Some(load_month_entries(arg.files))
    /\ UNCHANGED <<coreVars, arg, issued, secVars>>

\* storage.rs:47-65: the file of the date is created or overwritten
WriteEntry ==
    /\ arg.fn = "write"
    /\ calls = 0
    /\ calls' = 1
    /\ disk' = unwrap_or(write_entry(disk, arg.summary, arg.body), disk)
    /\ UNCHANGED <<STORE, LOGICAL_COUNTER, saves, tasks, reader, lister, events, auxVars>>

\* storage.rs:68-78, for the date just written
LoadEntry ==
    /\ arg.fn = "write"
    /\ calls = 1
    /\ result = None
    /\ result' = Some(load_entry(disk, arg.summary.date))
    /\ UNCHANGED <<coreVars, arg, issued, secVars>>

\* entry_service.rs:725-739 on the content of one AI answer
ParseResponse ==
    /\ arg.fn = "parse"
    /\ result = None
    /\ result' = Some(parse_ai_summary_response(arg.raw))
    /\ UNCHANGED <<coreVars, arg, issued, secVars>>

PureSpec ==
    PureInit
    /\ [][SaveSummary \/ ListMonth \/ WriteEntry \/ LoadEntry \/ ParseResponse]_vars

\* C27: the listing of a month holds the record of every file of the month
\* that load_entry can parse, whatever the size of the file's header.
C27_ListingCoversReadableFiles ==
    (arg.fn = "list" /\ result # None) =>
        \A d \in DOMAIN arg.files :
            LET read == load_entry(arg.files, d)
            IN  read # None =>
                    \E r \in unwrap(result) : r.summary = unwrap(read).summary

\* the trimmed text with every line break made a space
spaced(text) == [i \in 1..Len(text) |-> IF text[i] \in {"\n", "\r"} THEN " " ELSE text[i]]

\* C28: a save without enrichment stores, as summary, the first 120
\* characters of the trimmed body with line breaks made spaces, then "..."
\* exactly when the trimmed body is longer than 120 characters, and the
\* empty-entry text when the trimmed body is empty; the content hash is the
\* digest of the body as given, untrimmed.
C28_SummaryIsLocalHeuristic ==
    (arg.fn = "save" /\ result # None) =>
        LET t == trim(arg.body)
            stored == unwrap(result)
        IN  /\ stored.ai_summary =
                    Some(IF t = <<>> THEN EMPTY_ENTRY_SUMMARY
                         ELSE IF Len(t) > 120
                              THEN spaced(SubSeq(t, 1, 120)) \o <<".", ".", ".">>
                              ELSE spaced(t))
            /\ stored.hash = fingerprint(arg.body)

\* a body longer than the limit, with white space around it, has been saved
C28_Witness ==
    /\ arg.fn = "save"
    /\ result # None
    /\ Len(trim(arg.body)) > 120
    /\ trim(arg.body) # arg.body
    /\ \E i \in 1..120 : trim(arg.body)[i] = "\n"

(* device::device_id called by the threads of one process *)

\* once_cell's get_or_try_init with every caller running the initializer at once
initializer_never_waits(ths) == TRUE

\* device.rs:26-27: get_or_try_init runs one initializer at a time; the other
\* callers wait for it
initializer_free(ths) == \A u \in ThreadIds : ths[u].pc \notin {"read", "create"}

\* device.rs:25-29: the cell is set, or the caller becomes the initializer
DeviceIdCall(t) ==
    /\ threads[t].pc = "idle"
    /\ IF DEVICE_ID # None
       THEN threads' = [threads EXCEPT ![t].pc = "done", ![t].ret = Ok(unwrap(DEVICE_ID))]
       ELSE /\ initializer_free(threads)
            /\ threads' = [threads EXCEPT ![t].pc = "read"]
    /\ UNCHANGED <<coreVars, arg, result, issued, app_dir, DEVICE_ID, migration,
                   vault_saved>>

\* device.rs:32-44: the file is there and read_existing gives its identifier
DeviceRead(t) ==
    /\ threads[t].pc = "read"
    /\ LET existing == existing_device_id(app_dir)
       IN  IF existing # None
           THEN /\ DEVICE_ID' = existing
                /\ threads' = [threads EXCEPT ![t].pc = "done",
                                              ![t].ret = Ok(unwrap(existing))]
           ELSE /\ DEVICE_ID' = DEVICE_ID
                /\ threads' = [threads EXCEPT ![t].pc = "create"]
    /\ UNCHANGED <<coreVars, arg, result, issued, app_dir, migration, vault_saved>>

\* device.rs:46-50: a new identifier, written encrypted; the write may fail
DeviceCreate(t) ==
    /\ threads[t].pc = "create"
    /\ \E id \in Uuids, nonce \in {"n1"}, io_ok \in BOOLEAN :
        LET encoded == encrypt_device_id(id, nonce)
        IN  IF io_ok
            THEN /\ app_dir' = [app_dir EXCEPT ![DEVICE_FILE] = Some(encoded)]
                 /\ DEVICE_ID' = Some(id)
                 /\ threads' = [threads EXCEPT ![t].pc = "done", ![t].ret = Ok(id),
                                               ![t].wrote = Some(encoded)]
            ELSE /\ app_dir' = app_dir
                 /\ DEVICE_ID' = DEVICE_ID
                 /\ threads' = [threads EXCEPT ![t].pc = "done", ![t].ret = Err]
    /\ UNCHANGED <<coreVars, arg, result, issued, migration, vault_saved>>

DeviceInit ==
    /\ CoreStart(EmptyMap)
    /\ arg = [fn |-> "none"]
    /\ result = None
    /\ issued = <<>>
    \* the identity file the process finds: none, an empty one, a plain one,
    \* a sealed one, and a "v1:" one that does not open under the device key
    /\ \E file \in {None, Some([form |-> "empty"]), Some(PlainIdentity("d0")),
                     Some(encrypt_device_id("d0", "n1")),
                     Some([form |-> "v1", nonce |-> "n1",
                           sealed |-> aead_encrypt(derive_key("other", "other"),
                                                   "n1", "d0")])} :
        app_dir = [NoFiles EXCEPT ![DEVICE_FILE] = file]
    /\ DEVICE_ID = None
    /\ threads = [t \in ThreadIds |-> IdleThread]
    /\ migration = NoMigration
    /\ vault_saved = [p \in Providers |-> None]

DeviceSpec ==
    DeviceInit
    /\ [][\E t \in ThreadIds : DeviceIdCall(t) \/ DeviceRead(t) \/ DeviceCreate(t)]_vars

\* the calls of device_id that returned an identifier
Identified == {t \in ThreadIds : threads[t].pc = "done" /\ is_ok(threads[t].ret)}

\* C25: all the calls of device_id that succeed in one process return one
\* identifier, the one the cell holds, and the process writes at most one
\* identity file.
C25_DeviceIdWriteOnce ==
    /\ \A t \in Identified : DEVICE_ID = Some(ok_value(threads[t].ret))
    /\ \A t, u \in Identified : threads[t].ret = threads[u].ret
    /\ Cardinality({threads[t].wrote : t \in ThreadIds} \ {None}) <= 1

\* a first call failed at the write, a second created the identity, a third
\* got it from the cell
C25_Witness ==
    \E t, u, v \in ThreadIds :
        /\ threads[t].pc = "done" /\ ~is_ok(threads[t].ret)
        /\ u \in Identified /\ threads[u].wrote # None
        /\ v \in Identified /\ v # u /\ threads[v].wrote = None

\* C26: once device_id has returned the identifier of a plaintext identity
\* file, the file no longer holds the plaintext form.
C26_PlaintextIsRewritten ==
    Identified # {} =>
        /\ app_dir[DEVICE_FILE] # None
        /\ unwrap(app_dir[DEVICE_FILE]).form # "plain"

(* The secret vault: save_api_key and load_api_key, each run from start to *)
(* end, over restarts of the process and moves of the vault to another      *)
(* installation.                                                            *)

\* secrets.rs:33-52
SaveApiKey(provider_id, api_key) ==
    \E draw \in DeviceDraws(app_dir, DEVICE_ID),
       salt \in {"s1"}, nonce \in {"n1"}, io_ok \in BOOLEAN :
        LET device == device_id_of(app_dir, DEVICE_ID, draw)
        IN  /\ DEVICE_ID' = device.cell
            /\ arg' = [fn |-> "save_api_key", provider_id |-> provider_id,
                       legacy_fallback |-> FALSE,
                       device |-> IF is_ok(device.ret) THEN Some(ok_value(device.ret))
                                  ELSE None]
            /\ IF ~is_ok(device.ret)
               THEN /\ app_dir' = device.dir
                    /\ result' = Err
                    /\ vault_saved' = vault_saved
               ELSE LET blob == encrypt(ok_value(device.ret), api_key, salt, nonce)
                        store == load_store(device.dir)
                        slot == slot_of(store, provider_id, blob)
                    IN  IF io_ok
                        THEN /\ app_dir' = persist_store(device.dir,
                                                         insert(store, provider_id, slot))
                             /\ result' = Ok("unit")
                             /\ vault_saved' = [vault_saved EXCEPT ![provider_id] =
                                    Some([api_key |-> api_key,
                                          device_id |-> ok_value(device.ret)])]
                        ELSE /\ app_dir' = device.dir
                             /\ result' = Err
                             /\ vault_saved' = vault_saved
    /\ UNCHANGED <<coreVars, issued, threads, migration>>

\* secrets.rs:54-65
LoadApiKey(provider_id) ==
    \E draw \in DeviceDraws(app_dir, DEVICE_ID) :
        LET store == load_store(app_dir)
            fallback == app_dir[SECRET_FILE_NAME] = None /\ app_dir[LEGACY_FILE_NAME] # None
            device == device_id_of(app_dir, DEVICE_ID, draw)
            found == provider_id \in DOMAIN store
            blob == IF found THEN deserialize_blob(store[provider_id]) ELSE None
            reached == found /\ blob # None
        IN  /\ arg' = [fn |-> "load_api_key", provider_id |-> provider_id,
                       legacy_fallback |-> fallback,
                       device |-> IF reached /\ is_ok(device.ret)
                                  THEN Some(ok_value(device.ret)) ELSE None]
            /\ app_dir' = IF reached THEN device.dir ELSE app_dir
            /\ DEVICE_ID' = IF reached THEN device.cell ELSE DEVICE_ID
            /\ result' = IF ~found THEN Ok(None)
                         ELSE IF blob = None THEN Err
                         ELSE IF ~is_ok(device.ret) THEN Err
                         ELSE LET plaintext == decrypt(ok_value(device.ret), unwrap(blob))
                              IN  IF is_ok(plaintext) THEN Ok(Some(ok_value(plaintext)))
                                  ELSE Err
    /\ UNCHANGED <<coreVars, issued, threads, migration, vault_saved>>

\* the process ends and another starts: the cell is empty again. The identity
\* file is the one it left, or none, or that of another installation the
\* vault was copied to
Restart ==
    /\ DEVICE_ID # None
    /\ DEVICE_ID' = None
    /\ \E file \in {app_dir[DEVICE_FILE], None, Some(PlainIdentity("d9"))} :
        app_dir' = [app_dir EXCEPT ![DEVICE_FILE] = file]
    /\ UNCHANGED <<coreVars, arg, result, issued, threads, migration, vault_saved>>

\* a store written under the identity "d0" by an earlier run
EarlierStore(provider_id, api_key) ==
    [p \in {provider_id} |->
        slot_of(EmptyMap, p, encrypt("d0", api_key, "s0", "n0"))]

VaultInit ==
    /\ CoreStart(EmptyMap)
    /\ arg = [fn |-> "none"]
    /\ result = None
    /\ issued = <<>>
    /\ \E identity \in {None, Some(PlainIdentity("d0")), Some(encrypt_device_id("d0", "n1"))},
          current \in {None, Some(EarlierStore("p2", "k0"))},
          \* a legacy store, also with a slot that holds cached models and
          \* no credential
          legacy \in {None, Some(EarlierStore("p1", "k0")),
                      Some([p \in {"p1", "p2"} |->
                              IF p = "p1"
                              THEN slot_of(EmptyMap, p, encrypt("d0", "k0", "s0", "n0"))
                              ELSE ProviderSlot(None, None, None, Some("models"),
                                                None, None)])} :
        app_dir = [NoFiles EXCEPT ![DEVICE_FILE] = identity,
                                  ![SECRET_FILE_NAME] = current,
                                  ![LEGACY_FILE_NAME] = legacy]
    /\ DEVICE_ID = None
    /\ threads = [t \in ThreadIds |-> IdleThread]
    /\ migration = NoMigration
    /\ vault_saved = [p \in Providers |-> None]

VaultSpec ==
    VaultInit
    /\ [][\/ \E provider_id \in Providers, api_key \in ApiKeys :
                SaveApiKey(provider_id, api_key)
          \/ \E provider_id \in Providers : LoadApiKey(provider_id)
          \/ Restart]_vars

\* C21: decrypt under the identity a text was encrypted under returns the
\* text, decrypt under any other identity is an error; and load_api_key
\* returns the key save_api_key last stored for the provider when the
\* process has the identity of the save, and an error when it has another.
C21_RoundTripUnderSameIdentity ==
    /\ \A d \in {"d0", "d9"} \cup Uuids, e \in {"d0", "d9"} \cup Uuids,
          plaintext \in ApiKeys,
          salt \in {"s0", "s1", "s2"}, nonce \in {"n0", "n1"} :
          decrypt(e, encrypt(d, plaintext, salt, nonce)) =
              IF e = d THEN Ok(plaintext) ELSE Err
    /\ (arg.fn = "load_api_key" /\ vault_saved[arg.provider_id] # None) =>
          LET last == unwrap(vault_saved[arg.provider_id])
          IN  IF arg.device = Some(last.device_id)
              THEN result = Ok(Some(last.api_key))
              ELSE ~is_ok(result)

\* a key was saved, the vault went to an installation with another identity,
\* and load_api_key was called there
C21_Witness ==
    /\ arg.fn = "load_api_key"
    /\ vault_saved[arg.provider_id] # None
    /\ arg.device # None
    /\ arg.device # Some(unwrap(vault_saved[arg.provider_id]).device_id)
    /\ result = Err

\* C24: a load that found no current secret file and returned a credential
\* of the legacy file leaves the current secret file written.
C24_LoadPersistsCurrentLayout ==
    (/\ arg.fn = "load_api_key"
     /\ arg.legacy_fallback
     /\ is_ok(result)
     /\ ok_value(result) # None) => app_dir[SECRET_FILE_NAME] # None

(* ai_migration::migrate_if_needed, run at every start of the app          *)

\* the slot of the legacy combined file: a credential and cached preferences
LegacySlot(salt, nonce, ciphertext, model_list, base_url, selected_model) ==
    [salt |-> salt, nonce |-> nonce, ciphertext |-> ciphertext,
     model_list |-> model_list, base_url |-> base_url, selected_model |-> selected_model]

\* ai_migration.rs:37-41
SecretSlot(salt, nonce, ciphertext) ==
    [salt |-> salt, nonce |-> nonce, ciphertext |-> ciphertext]

\* the legacy combined file read: Ok(None) when it is absent
read_legacy_combined(dir) == dir[LEGACY_COMBINED]

\* the secret snapshot written to the current secret file
persist_store_snapshot(dir, snapshot) == [dir EXCEPT ![SECRETS] = Some(snapshot)]

\* ai_prefs.rs:30-41, the fields the migration fills
ProviderPreferences(base_url, selected_model, model_list) ==
    [base_url |-> base_url, selected_model |-> selected_model, model_list |-> model_list]

\* the providers built in (ai_prefs.rs:195, :242), one of them here
Builtins == {"p1"}

\* ai_prefs.rs:337-347
default_provider_preferences(id) ==
    ProviderPreferences(Some("default url"), Some("default model"), None)

\* ai_prefs.rs:193-209
default_preferences == [id \in Builtins |-> default_provider_preferences(id)]

\* ai_prefs.rs:328-335 and :273-277: a blank value is no value
sanitize_text(value) == IF value = Some("") THEN None ELSE value

\* ai_prefs.rs:270-296
sanitize_provider(id, provider) ==
    ProviderPreferences(
        IF sanitize_text(provider.base_url) = None THEN Some("default url")
        ELSE provider.base_url,
        IF sanitize_text(provider.selected_model) = None THEN Some("default model")
        ELSE provider.selected_model,
        provider.model_list)

\* ai_prefs.rs:239-268
sanitize_preferences(prefs) ==
    [id \in Builtins \cup DOMAIN prefs |->
        sanitize_provider(id, IF id \in DOMAIN prefs THEN prefs[id]
                              ELSE default_provider_preferences(id))]

\* ai_prefs.rs:68-83
load_preferences(dir) ==
    IF dir[PREFS_FILE_NAME] = None THEN default_preferences
    ELSE sanitize_preferences(unwrap(dir[PREFS_FILE_NAME]))

\* ai_prefs.rs:85-99
save_preferences(dir, prefs) ==
    [dir EXCEPT ![PREFS_FILE_NAME] = Some(sanitize_preferences(prefs))]

\* ai_prefs.rs:178-191
merge_legacy_into_preferences(prefs, legacy) ==
    [id \in DOMAIN prefs \cup DOMAIN legacy |->
        LET provider == IF id \in DOMAIN prefs THEN prefs[id]
                        ELSE ProviderPreferences(None, None, None)
        IN  IF id \notin DOMAIN legacy THEN provider
            ELSE ProviderPreferences(
                    IF legacy[id].base_url # None THEN legacy[id].base_url
                    ELSE provider.base_url,
                    IF legacy[id].selected_model # None THEN legacy[id].selected_model
                    ELSE provider.selected_model,
                    IF legacy[id].model_list # None THEN legacy[id].model_list
                    ELSE provider.model_list)]

\* ai_migration.rs:29-44
secret_snapshot(legacy) ==
    LET kept == {id \in DOMAIN legacy :
                    ~(legacy[id].salt = None /\ legacy[id].nonce = None
                      /\ legacy[id].ciphertext = None)}
    IN  [id \in kept |->
            SecretSlot(legacy[id].salt, legacy[id].nonce, legacy[id].ciphertext)]

\* a missing legacy file taken for an error
begin_missing_is_error(dir) ==
    IF read_legacy_combined(dir) = None THEN "err"
    ELSE IF dir[SECRETS] # None \/ dir[PREFS_FILE_NAME] # None THEN "ok"
    ELSE "convert"

\* the check of l.21 left out: the conversion runs over files that exist
begin_unguarded(dir) ==
    IF read_legacy_combined(dir) = None THEN "ok" ELSE "convert"

\* ai_migration.rs:13-23: return Ok at once, or go on to convert
begin_migration(dir) ==
    IF read_legacy_combined(dir) = None THEN "ok"
    ELSE IF dir[SECRETS] # None \/ dir[PREFS_FILE_NAME] # None THEN "ok"
    ELSE "convert"

\* the run returns: its result, and the two converted files as it leaves them
RunEnds(m, ret, renamed, dir) ==
    [m EXCEPT !.pc = "idle",
              !.runs = Append(m.runs, [ret |-> ret, renamed |-> renamed,
                                       secrets |-> dir[SECRETS],
                                       prefs |-> dir[PREFS_FILE_NAME]])]

\* ai_migration.rs:12-23
MigrateBegin ==
    /\ migration.pc = "idle"
    /\ Len(migration.runs) < MaxRuns
    /\ LET outcome == begin_migration(app_dir)
       IN  migration' =
            IF outcome = "convert"
            THEN [migration EXCEPT !.pc = "prefs",
                                   !.legacy_store = unwrap(read_legacy_combined(app_dir))]
            ELSE RunEnds(migration, outcome, "none", app_dir)
    /\ UNCHANGED <<coreVars, arg, result, issued, app_dir, DEVICE_ID, threads,
                   vault_saved>>

\* ai_migration.rs:25-27; the write may fail
MigratePreferences ==
    /\ migration.pc = "prefs"
    /\ \E io_ok \in BOOLEAN :
        LET prefs == merge_legacy_into_preferences(load_preferences(app_dir),
                                                   migration.legacy_store)
        IN  IF io_ok
            THEN /\ app_dir' = save_preferences(app_dir, prefs)
                 /\ migration' = [migration EXCEPT !.pc = "secrets"]
            ELSE /\ app_dir' = app_dir
                 /\ migration' = RunEnds(migration, "err", "none", app_dir)
    /\ UNCHANGED <<coreVars, arg, result, issued, DEVICE_ID, threads, vault_saved>>

\* ai_migration.rs:29-45; the write may fail
MigrateSecrets ==
    /\ migration.pc = "secrets"
    /\ \E io_ok \in BOOLEAN :
        IF io_ok
        THEN /\ app_dir' = persist_store_snapshot(app_dir,
                                secret_snapshot(migration.legacy_store))
             /\ migration' = [migration EXCEPT !.pc = "rename"]
        ELSE /\ app_dir' = app_dir
             /\ migration' = RunEnds(migration, "err", "none", app_dir)
    /\ UNCHANGED <<coreVars, arg, result, issued, DEVICE_ID, threads, vault_saved>>

\* ai_migration.rs:47-51: fs::rename, whose failure is ignored
MigrateRename ==
    /\ migration.pc = "rename"
    /\ \E io_ok \in BOOLEAN :
        IF io_ok
        THEN /\ app_dir' = [app_dir EXCEPT ![BACKUP] = app_dir[LEGACY_COMBINED],
                                           ![LEGACY_COMBINED] = None]
             /\ migration' = RunEnds(migration, "ok", "done", app_dir)
        ELSE /\ app_dir' = app_dir
             /\ migration' = RunEnds(migration, "ok", "failed", app_dir)
    /\ UNCHANGED <<coreVars, arg, result, issued, DEVICE_ID, threads, vault_saved>>

\* the legacy combined files an install may hold
LegacyCombined ==
    {EmptyMap,
     [id \in {"p1"} |->
        LegacySlot(Some("salt"), Some("nonce"), Some("ciphertext"),
                   None, Some("url"), None)],
     [id \in {"p1", "p2"} |->
        IF id = "p1"
        THEN LegacySlot(Some("salt"), Some("nonce"), Some("ciphertext"), None, None, None)
        ELSE LegacySlot(None, None, None, Some("models"), Some(""), Some("model"))]}

MigrationInit ==
    /\ CoreStart(EmptyMap)
    /\ arg = [fn |-> "none"]
    /\ result = None
    /\ issued = <<>>
    /\ \E legacy \in {None} \cup {Some(l) : l \in LegacyCombined},
          \* files of the current layout that are there already
          secrets \in {None, Some([id \in {"p1"} |->
                                    SecretSlot(Some("salt 2"), Some("nonce 2"),
                                               Some("ciphertext 2"))])},
          prefs \in {None, Some([id \in {"p1"} |->
                                  ProviderPreferences(Some("mine"), Some("model"), None)])},
          backup \in {None, Some(EmptyMap)} :
        app_dir = [NoFiles EXCEPT ![LEGACY_COMBINED] = legacy, ![SECRETS] = secrets,
                                  ![PREFS_FILE_NAME] = prefs, ![BACKUP] = backup]
    /\ DEVICE_ID = None
    /\ threads = [t \in ThreadIds |-> IdleThread]
    /\ migration = NoMigration
    /\ vault_saved = [p \in Providers |-> None]

MigrationSpec ==
    MigrationInit
    /\ [][MigrateBegin \/ MigratePreferences \/ MigrateSecrets \/ MigrateRename]_vars

C30_DateIsCacheKey == \A k \in DOMAIN STORE : STORE[k].summary.date = k

-----------------------------------------------------------------------------
(* C31..C38 *)

\* C31: whenever a handler hands the cache to prune_store_capacity (after
\* the insert of a save, of a read or of a listing), with n the number of
\* cached records: when n > MAX_STORE_ENTRIES exactly n - MAX_STORE_ENTRIES
\* records are removed and they come first in the order (date ascending, then
\* id ascending); when n <= MAX_STORE_ENTRIES none is removed; every record
\* that stays is unchanged.
C31_PruneRemovesOldestOverflow ==
    [][LET before(s0, a, b) ==
               \/ unwrap(parse_date(a)) < unwrap(parse_date(b))
               \/ /\ unwrap(parse_date(a)) = unwrap(parse_date(b))
                  /\ str_less(hlc_string(s0[a].summary.hlc),
                              hlc_string(s0[b].summary.hlc))
           exact(s0, s1) ==
               LET n == Cardinality(DOMAIN s0)
                   removed == DOMAIN s0 \ DOMAIN s1
               IN  /\ DOMAIN s1 \subseteq DOMAIN s0
                   /\ Cardinality(removed) =
                          IF n > MAX_STORE_ENTRIES THEN n - MAX_STORE_ENTRIES ELSE 0
                   /\ \A k \in DOMAIN s1 : s1[k] = s0[k]
                   /\ \A r \in removed, k \in DOMAIN s1 :
                          (parse_date(r) # None /\ parse_date(k) # None)
                              => before(s0, r, k)
       IN  /\ (lister.pc = "insert" /\ lister'.pc = "idle")
                => exact(insert_all(STORE, lister.records), STORE')
           /\ (reader.pc = "insert" /\ reader'.pc = "idle")
                => exact(insert(STORE, reader.date, reader.record), STORE')
           /\ \A s \in SaveIds :
                (saves[s].pc = "store" /\ saves'[s].pc = "done")
                    => exact(insert(STORE, saves[s].date,
                                    EntryRecord(saves[s].summary, saves[s].body)),
                             STORE')]_vars

\* C32: storage::write_entry followed by storage::load_entry for the same
\* date returns a record whose body is the written body, also when it begins
\* with newline or carriage-return characters, and whose metadata is the
\* written metadata.
C32_WriteThenLoadRoundTrip ==
    (arg.fn = "write" /\ result # None) =>
        unwrap(result) = Some(EntryRecord(arg.summary, arg.body))

\* C33: a commit of an enrichment result changes, in the cache, only the
\* ai_summary, emoji and language of the record of the task's date: its id,
\* date, content hash and body stay, its emoji stays when the result carries
\* none, and the records of all other dates stay.
C33_CommitChangesOnlyEnrichment ==
    [][\A s \in SaveIds :
          (tasks[s].pc = "commit" /\ tasks'[s].pc = "write") =>
              LET date == tasks[s].date
                  old == STORE[date]
                  new == STORE'[date]
              IN  /\ DOMAIN STORE' = DOMAIN STORE
                  /\ \A k \in DOMAIN STORE \ {date} : STORE'[k] = STORE[k]
                  /\ new.summary.hlc = old.summary.hlc
                  /\ new.summary.date = old.summary.date
                  /\ new.summary.hash = old.summary.hash
                  /\ new.body = old.body
                  /\ final_result(tasks[s]).emoji = None
                        => new.summary.emoji = old.summary.emoji]_vars

(* Saves without enrichment, reads of a body and listings of the month, with *)
(* the empty body among the bodies saved.                                   *)

BodySpec ==
    Init
    /\ [][\/ \E s \in SaveIds, body \in {<<>>, <<"a">>} :
                SaveBegin(s, "2025-01-01", body, None)
          \/ \E s \in SaveIds : SaveWrite(s)
          \/ \E s \in SaveIds : SaveStore(s)
          \/ ReadBegin("body", "2025-01-01")
          \/ ReadLoad
          \/ ReadInsert
          \/ ListLoad
          \/ ListStore]_vars

\* C34: once list_entries_by_month has put its header-only records into the
\* cache, with no save under way, get_entry_body_by_date for a date it loaded
\* whose file exists returns the body load_entry reads from that file, and so
\* the empty text only when the stored body is empty.
C34_ReadAfterListingReturnsDiskBody ==
    [][( /\ lister.pc = "insert" /\ lister'.pc = "idle"
         /\ \A s \in SaveIds : saves[s].pc \in {"idle", "done"} ) =>
          \A date \in Dates :
              (date \in {r.summary.date : r \in lister.records} /\ date \in DOMAIN disk')
                  => get_entry_body_by_date(date)'
                        = Some(unwrap(load_entry(disk', date)).body)]_vars

(* Concurrent callers of next_hlc: the clock reading, the fetch_add and the *)
(* formatting of one call are separate steps of its thread.                 *)

fetch_add_lost(counter) == counter

\* entry_service.rs:525: LOGICAL_COUNTER.fetch_add(1, Ordering::SeqCst), the
\* value it leaves in the counter (the calls stay far below 2^64)
fetch_add(counter) == counter + 1

\* entry_service.rs:524: Utc::now().timestamp_millis(); callers may read the
\* same millisecond, and the wall clock may step back
HlcNow(t) ==
    /\ threads[t].pc = "idle"
    /\ calls < MaxCalls
    /\ calls' = calls + 1
    /\ \E timestamp \in {1, 2} :
        threads' = [threads EXCEPT ![t] = [pc |-> "fetch_add", timestamp |-> timestamp]]
    /\ UNCHANGED <<STORE, disk, LOGICAL_COUNTER, saves, tasks, reader, lister, events,
                   arg, result, issued, app_dir, DEVICE_ID, migration, vault_saved>>

\* entry_service.rs:525: one atomic read-modify-write
HlcFetchAdd(t) ==
    /\ threads[t].pc = "fetch_add"
    /\ threads' = [threads EXCEPT ![t] = [pc |-> "format",
                                          timestamp |-> threads[t].timestamp,
                                          logical |-> LOGICAL_COUNTER]]
    /\ LOGICAL_COUNTER' = fetch_add(LOGICAL_COUNTER)
    /\ UNCHANGED <<STORE, disk, saves, tasks, reader, lister, calls, events,
                   arg, result, issued, app_dir, DEVICE_ID, migration, vault_saved>>

\* entry_service.rs:526-527: the device id of the process, and the id returned
HlcFormat(t) ==
    /\ threads[t].pc = "format"
    /\ issued' = Append(issued, [timestamp |-> threads[t].timestamp,
                                 logical |-> threads[t].logical,
                                 hlc |-> next_hlc(threads[t].timestamp,
                                                  threads[t].logical)])
    /\ threads' = [threads EXCEPT ![t] = IdleThread]
    /\ UNCHANGED <<coreVars, arg, result, app_dir, DEVICE_ID, migration, vault_saved>>

HlcSpec ==
    Init
    /\ [][\E t \in ThreadIds : HlcNow(t) \/ HlcFetchAdd(t) \/ HlcFormat(t)]_vars

\* C35: any two calls of next_hlc in one process return different ids, in
\* every interleaving of the callers.
C35_IdsAreDistinct ==
    \A i, j \in 1..Len(issued) : i # j => issued[i].hlc # issued[j].hlc

\* two callers read the same millisecond, and the one that took the counter
\* first has not returned when the other has
C35_Witness ==
    \E t \in ThreadIds :
        /\ threads[t].pc = "format"
        /\ \E i \in 1..Len(issued) :
              /\ issued[i].timestamp = threads[t].timestamp
              /\ issued[i].logical > threads[t].logical

\* C36: parse_ai_summary_response tries three readings of the trimmed answer,
\* in this order: a JSON object gives its summary and emoji members; else a
\* text with a colon (":" or the fullwidth one) gives the part before the
\* first colon as the emoji candidate and the part after it as the summary;
\* else the whole trimmed answer is the summary and there is no emoji.
C36_ThreeStrategiesInOrder ==
    (arg.fn = "parse" /\ result # None) =>
        LET t == trim(arg.raw)
            res == unwrap(result)
            colons == {i \in 1..Len(t) : t[i] \in {":", "FULLWIDTH COLON"}}
            first == CHOOSE i \in colons : \A j \in colons : i <= j
            before == trim(SubSeq(t, 1, first - 1))
            after == trim(SubSeq(t, first + 1, Len(t)))
        IN  IF arg.json # None /\ ~arg.fenced
            THEN /\ unwrap(arg.json).summary # None
                    => res.summary = trim(unwrap(unwrap(arg.json).summary))
                 /\ res.emoji \in {None} \cup
                        (IF unwrap(arg.json).emoji = None THEN {}
                         ELSE {Some(trim(unwrap(unwrap(arg.json).emoji)))})
            ELSE IF colons # {}
            THEN /\ res.summary = after
                 /\ res.emoji \in {None, Some(before),
                                    Some(trim(trim_start_matches(before, "$")))}
            ELSE res = AiSummaryResult(t, None)

\* C37: a process that finds an identity file never replaces it: no step
\* writes the file once it exists, and a call of device_id that succeeds
\* returns the identifier the file encodes.
C37_ExistingIdentityIsKept ==
    [][app_dir[DEVICE_FILE] # None =>
          /\ app_dir'[DEVICE_FILE] = app_dir[DEVICE_FILE]
          /\ \A t \in ThreadIds :
                ( /\ threads[t].pc # "done" /\ threads'[t].pc = "done"
                  /\ is_ok(threads'[t].ret) )
                    => existing_device_id(app_dir) = Some(ok_value(threads'[t].ret))]_vars

\* secrets.rs:67-80
DeleteApiKey(provider_id) ==
    \E io_ok \in BOOLEAN :
        LET store == load_store(app_dir)
            removed == [p \in DOMAIN store \ {provider_id} |-> store[p]]
            slot == store[provider_id]
            kept == IF provider_id \notin DOMAIN store THEN store
                    ELSE IF slot.model_list # None \/ slot.base_url # None
                    THEN insert(removed, provider_id,
                                [slot EXCEPT !.salt = None, !.nonce = None,
                                             !.ciphertext = None])
                    ELSE removed
        IN  /\ arg' = [fn |-> "delete_api_key", provider_id |-> provider_id,
                       saved |-> vault_saved[provider_id], before |-> store]
            /\ IF io_ok
               THEN /\ app_dir' = persist_store(app_dir, kept)
                    /\ result' = Ok("unit")
                    /\ vault_saved' = [vault_saved EXCEPT ![provider_id] = None]
               ELSE /\ app_dir' = app_dir
                    /\ result' = Err
                    /\ vault_saved' = vault_saved
    /\ UNCHANGED <<coreVars, issued, DEVICE_ID, threads, migration>>

\* save, delete and load of credentials in one process with a sealed
\* identity, over a store where the first provider has any of a cached model
\* list, a base url and a selected model, and the second has a credential
DeleteSpec ==
    /\ CoreStart(EmptyMap)
    /\ arg = [fn |-> "none"]
    /\ result = None
    /\ issued = <<>>
    /\ \E model_list \in {None, Some("models")}, base_url \in {None, Some("url")},
          selected_model \in {None, Some("model")} :
          app_dir = [NoFiles EXCEPT
                        ![DEVICE_FILE] = Some(encrypt_device_id("d0", "n1")),
                        ![SECRET_FILE_NAME] =
                            Some([p \in Providers |->
                                    IF p = "p1"
                                    THEN ProviderSlot(None, None, None, model_list,
                                                      base_url, selected_model)
                                    ELSE slot_of(EmptyMap, p,
                                                 encrypt("d0", "k0", "s0", "n0"))])]
    /\ DEVICE_ID = None
    /\ threads = [t \in ThreadIds |-> IdleThread]
    /\ migration = NoMigration
    /\ vault_saved = [p \in Providers |-> None]
    /\ [][\/ \E provider_id \in Providers, api_key \in ApiKeys :
                SaveApiKey(provider_id, api_key)
          \/ \E provider_id \in Providers : DeleteApiKey(provider_id)
          \/ \E provider_id \in Providers : LoadApiKey(provider_id)]_vars

\* C38: after a save and a delete of a provider's credential that both
\* succeeded, the provider's model list, base url and selected model are
\* those of before the delete, the slots of the other providers are those
\* of before the delete, and a load of the provider's credential returns
\* Ok(None).
C38_DeleteLeavesNoCredentialAndKeepsPreferences ==
    [][(arg.fn = "delete_api_key" /\ is_ok(result) /\ arg.saved # None) =>
          LET store == load_store(app_dir)
              id == arg.provider_id
              preference(s, field) == IF id \in DOMAIN s THEN s[id][field] ELSE None
          IN  /\ \A field \in {"model_list", "base_url", "selected_model"} :
                    preference(store, field) = preference(arg.before, field)
              /\ DOMAIN store \ {id} = DOMAIN arg.before \ {id}
              /\ \A p \in DOMAIN store \ {id} : store[p] = arg.before[p]
              /\ (arg'.fn = "load_api_key" /\ arg'.provider_id = id) =>
                    result' = Ok(None)]_vars

====
